---- MODULE Spec2Model ----
(***************************************************************************)
(* The Remix SSR-site component (pkg/platform/src/components/aws/remix.ts) *)
(* as a state machine: one run of the Remix constructor, step by step, in  *)
(* the order of its statements.  The build output on disk, the component   *)
(* arguments and the $dev flag are the inputs; the plan handed to          *)
(* validatePlan and the resources requested are the outputs.               *)
(*                                                                         *)
(* Text is modelled as sequences of one-character strings where the code   *)
(* builds it (directory entries and route patterns), and as plain strings  *)
(* where the code only passes fixed literals around.  A JavaScript value   *)
(* that may be undefined is a record: None, or Some(v).                    *)
(***************************************************************************)
EXTENDS Integers, Sequences, FiniteSets, TLC

VARIABLES
    dev,          \* $dev: placeholder / local development mode
    args,         \* RemixArgs, the fields the constructor reads
    disk,         \* the file system the constructor reads
    pc,           \* the next statement of the constructor
    calls,        \* the steps invoked so far, in order
    edge,         \* normalizeEdge()
    isUsingVite,  \* checkIsUsingVite()
    loaderReads,  \* directories loadBuildMetadata has listed
    buildMeta,    \* loadBuildOutput().buildMeta
    written,      \* files createServerLambdaBundle has written
    built,        \* the plan object buildPlan hands to validatePlan
    plan,         \* buildPlan(): what validatePlan returned
    site,         \* what createServersAndDistribution returned
    outputs,      \* what registerOutputs received
    error,        \* the exception that ended the constructor, if any
    uploaded,     \* the objects the asset sync has put into the bucket
    invalidation, \* the post-deploy invalidation: policy, request and call
    userPool      \* CognitoUserPool: what createUserPool passed to UserPool

vars == <<dev, args, disk, pc, calls, edge, isUsingVite, loaderReads,
          buildMeta, written, built, plan, site, outputs, error,
          uploaded, invalidation, userPool>>

-----------------------------------------------------------------------------
(* Bounds of the model *)

\* the largest number of entries of a listed directory
MaxChildren == 2

\* the largest number of behaviors of a plan given to validatePlan on its own
MaxBehaviors == 3

\* the largest number of entries of the aliases of a CognitoUserPool
MaxAliases == 4

\* the names a directory entry can have ("*" is a legal file-name character)
Names == { <<"a">>, <<"b">>, <<"a", "*">> }

-----------------------------------------------------------------------------
(* Values *)

None == [some |-> FALSE]
Some(v) == [some |-> TRUE, value |-> v]
Option(S) == {None} \cup {Some(v) : v \in S}

\* path.join of two segments
PathJoin(a, b) == a \o "/" \o b

\* the directory buildApp returns
OutputPath == "out"

\* $cli.paths.platform
PlatformPath == "platform"

ViteConfigs == {"vite.config.ts", "vite.config.js"}

\* the directories of the build output that can hold the static assets
AssetDirs == { PathJoin(OutputPath, "public"),
               PathJoin(OutputPath, PathJoin("build", "client")) }

RECURSIVE SeqsUpTo(_, _)
SeqsUpTo(S, n) ==
    IF n = 0 THEN { <<>> }
    ELSE LET shorter == SeqsUpTo(S, n - 1)
         IN  shorter \cup { Append(s, x) : s \in shorter, x \in S }

\* the names of the files inside a sub-directory of a listed directory
NestedNames == { <<"c">> }

\* a file, or a directory with the files it holds
DirEntries ==
    [name : Names, isDirectory : {FALSE}, children : {<<>>}]
    \cup [name : Names, isDirectory : {TRUE}, children : SeqsUpTo(NestedNames, 1)]

\* what readdirSync can return: entries with pairwise distinct names
Listings ==
    { l \in SeqsUpTo(DirEntries, MaxChildren) :
        \A i, j \in 1..Len(l) : l[i].name = l[j].name => i = j }

Disks == [files : SUBSET ViteConfigs, dirs : [AssetDirs -> Option(Listings)]]

\* what a build leaves behind: the assets under one of the two directories,
\* or under none; the other directory is absent or empty
BuildOutputs ==
    { dirs \in [AssetDirs -> Option(Listings)] :
        \E p \in AssetDirs : dirs[p] \in {None, Some(<<>>)} }

-----------------------------------------------------------------------------
(* normalizeEdge, checkIsUsingVite *)

\* an edge default of true
normalizeEdgeDefaultingToEdge(a) == IF a.edge.some THEN a.edge.value ELSE TRUE

\* args?.edge ?? false
normalizeEdge(a) == IF a.edge.some THEN a.edge.value ELSE FALSE

\* fs.existsSync(vite.config.ts) || fs.existsSync(vite.config.js)
\* a check that knows vite.config.ts only
checkIsUsingViteTsOnly(d) == "vite.config.ts" \in d.files

checkIsUsingVite(d) ==
    ("vite.config.ts" \in d.files) \/ ("vite.config.js" \in d.files)

-----------------------------------------------------------------------------
(* The build metadata loader *)

\* isUsingVite ? path.join("build", "client") : "public"
AssetsPathOf(vite) == IF vite THEN PathJoin("build", "client") ELSE "public"

\* isUsingVite ? undefined : "build"
AssetsVersionedSubDirOf(vite) == IF vite THEN None ELSE Some("build")

\* fs.existsSync, as readdirSync sees it: it throws ENOENT on a missing path
DirExists(d, p) == p \in DOMAIN d.dirs /\ d.dirs[p].some

\* fs.readdirSync(p): the names of the immediate children, in listing order
ReadDirSync(d, p) ==
    [i \in 1..Len(d.dirs[p].value) |-> d.dirs[p].value[i].name]

\* fs.statSync(path.join(p, item)).isDirectory()
IsDirectory(d, p, item) ==
    \E i \in 1..Len(d.dirs[p].value) :
        d.dirs[p].value[i].name = item /\ d.dirs[p].value[i].isDirectory

\* a directory pattern without the separator: `${item}*`
RouteOfWithoutSeparator(item, isDir) == IF isDir THEN item \o <<"*">> ELSE item

\* isDirectory() ? `${item}/*` : item
RouteOf(item, isDir) == IF isDir THEN item \o <<"/", "*">> ELSE item

\* a loader that walks into the sub-directories: a route per nested file too
RECURSIVE WalkRoutes(_)
WalkRoutes(listing) ==
    IF listing = <<>> THEN <<>>
    ELSE LET e == Head(listing)
         IN  << RouteOf(e.name, e.isDirectory) >>
             \o [i \in 1..Len(e.children) |-> e.name \o <<"/">> \o e.children[i]]
             \o WalkRoutes(Tail(listing))

StaticRoutesOfRecursive(d, p) == WalkRoutes(d.dirs[p].value)

\* readdirSync(...).map(item => ...): one route per child, in listing order
StaticRoutesOf(d, p) ==
    LET items == ReadDirSync(d, p)
    IN  [i \in 1..Len(items) |-> RouteOf(items[i], IsDirectory(d, p, items[i]))]

\* the record loadBuildMetadata returns when the assets directory can be listed
BuildMetadataOf(d, outputPath, vite) ==
    [assetsPath            |-> AssetsPathOf(vite),
     assetsVersionedSubDir |-> AssetsVersionedSubDirOf(vite),
     staticRoutes          |-> StaticRoutesOf(d, PathJoin(outputPath, AssetsPathOf(vite)))]

\* what readdirSync throws on a path that does not exist
ENOENT == [name |-> "ENOENT", thrownBy |-> "loadBuildMetadata"]

\* a loader that answers a missing directory with no routes
loadBuildMetadataSwallowing(d, outputPath, vite) ==
    IF DirExists(d, PathJoin(outputPath, AssetsPathOf(vite)))
    THEN [ok |-> TRUE, value |-> BuildMetadataOf(d, outputPath, vite)]
    ELSE [ok |-> TRUE,
          value |-> [assetsPath            |-> AssetsPathOf(vite),
                     assetsVersionedSubDir |-> AssetsVersionedSubDirOf(vite),
                     staticRoutes          |-> <<>>]]

\* loadBuildMetadata(): the record, or the exception of readdirSync
loadBuildMetadata(d, outputPath, vite) ==
    IF DirExists(d, PathJoin(outputPath, AssetsPathOf(vite)))
    THEN [ok |-> TRUE, value |-> BuildMetadataOf(d, outputPath, vite)]
    ELSE [ok |-> FALSE, error |-> ENOENT]

\* "assets/*" and "favicon.ico", character by character
PlaceholderAssetsRoute == <<"a", "s", "s", "e", "t", "s", "/", "*">>
PlaceholderFaviconRoute == <<"f", "a", "v", "i", "c", "o", "n", ".", "i", "c", "o">>

loadBuildMetadataPlaceholder ==
    [assetsPath            |-> "placeholder",
     assetsVersionedSubDir |-> None,
     staticRoutes          |-> <<PlaceholderAssetsRoute, PlaceholderFaviconRoute>>]

\* a loadBuildOutput that evaluates loadBuildMetadata() before it looks at $dev
BuildOutputDataEager(d, dsk, outputPath, vite) ==
    LET loaded == loadBuildMetadata(dsk, outputPath, vite)
    IN  IF ~loaded.ok
        THEN [ok |-> FALSE, error |-> loaded.error,
              reads |-> {PathJoin(outputPath, AssetsPathOf(vite))}]
        ELSE [ok |-> TRUE,
              value |-> IF d THEN loadBuildMetadataPlaceholder ELSE loaded.value,
              reads |-> {PathJoin(outputPath, AssetsPathOf(vite))}]

\* data: $dev ? loadBuildMetadataPlaceholder() : loadBuildMetadata()
\* with the directories the evaluation lists
BuildOutputData(d, dsk, outputPath, vite) ==
    IF d
    THEN [ok |-> TRUE, value |-> loadBuildMetadataPlaceholder, reads |-> {}]
    ELSE LET loaded == loadBuildMetadata(dsk, outputPath, vite)
         IN  IF loaded.ok
             THEN [ok |-> TRUE, value |-> loaded.value,
                   reads |-> {PathJoin(outputPath, AssetsPathOf(vite))}]
             ELSE [ok |-> FALSE, error |-> loaded.error,
                   reads |-> {PathJoin(outputPath, AssetsPathOf(vite))}]

-----------------------------------------------------------------------------
(* createServerLambdaBundle *)

\* the first lines of server.mjs, then the wrapper read from the platform
\* a server module with the wrapper ahead of the import of the build
ServerModuleContentWrapperFirst(vite, wrapperFile) ==
    << PathJoin(PlatformPath, PathJoin("functions", PathJoin("remix-server", wrapperFile))),
       "// Import the server build that was produced by 'remix build'",
       IF vite THEN "import * as remixServerBuild from \"./server/index.js\";"
               ELSE "import * as remixServerBuild from \"./index.js\";",
       "" >>

ServerModuleContent(vite, wrapperFile) ==
    << "// Import the server build that was produced by 'remix build'",
       IF vite THEN "import * as remixServerBuild from \"./server/index.js\";"
               ELSE "import * as remixServerBuild from \"./index.js\";",
       "",
       PathJoin(PlatformPath, PathJoin("functions", PathJoin("remix-server", wrapperFile))) >>

\* a bundle step that also leaves the wrapper next to the build directory
BundleWritesBesideBuild(vite, outputPath, wrapperFile) ==
    LET buildPath == PathJoin(outputPath, "build")
    IN  { [path    |-> PathJoin(buildPath, "server.mjs"),
           content |-> ServerModuleContent(vite, wrapperFile)],
          [path    |-> PathJoin(outputPath, wrapperFile),
           content |-> ServerModuleContent(vite, wrapperFile)],
          [path    |-> PathJoin(buildPath, "polyfill.mjs"),
           content |-> << PathJoin(PlatformPath,
                            PathJoin("functions", PathJoin("remix-server", "polyfill.mjs"))) >>] }

\* the files written: build/server.mjs and the copied build/polyfill.mjs
BundleWrites(vite, outputPath, wrapperFile) ==
    LET buildPath == PathJoin(outputPath, "build")
    IN  { [path    |-> PathJoin(buildPath, "server.mjs"),
           content |-> ServerModuleContent(vite, wrapperFile)],
          [path    |-> PathJoin(buildPath, "polyfill.mjs"),
           content |-> << PathJoin(PlatformPath,
                            PathJoin("functions", PathJoin("remix-server", "polyfill.mjs"))) >>] }

\* the function config returned
createServerLambdaBundle(vite, outputPath, wrapperFile) ==
    LET buildPath == PathJoin(outputPath, "build")
    IN  [handler |-> PathJoin(buildPath, "server.handler"),
         nodejs  |-> [esbuild |-> [inject |-> << PathJoin(buildPath, "polyfill.mjs") >>]]]

\* a wrapper choice that ignores edge
WrapperFileOfAlwaysRegional(e) == "regional-server.mjs"

\* edge ? "edge-server.mjs" : "regional-server.mjs"
WrapperFileOf(e) == IF e THEN "edge-server.mjs" ELSE "regional-server.mjs"

-----------------------------------------------------------------------------
(* buildPlan: the object literal handed to validatePlan *)

\* useCloudFrontFunctionHostHeaderInjection() of ssr-site, as an opaque value
HostHeaderInjection == "useCloudFrontFunctionHostHeaderInjection()"

EncodeUriInjection ==
    "request.uri = request.uri.split('/').map(encodeURIComponent).join('/');"

PlanCloudFrontFunctions ==
    [serverCfFunction |-> [injections |-> << HostHeaderInjection >>],
     staticCfFunction |-> [injections |-> << EncodeUriInjection >>]]

\* edge functions left out of the plan
PlanEdgeFunctionsNever(e, serverConfig) == None

\* edge ? { server: { function: serverConfig } } : undefined
PlanEdgeFunctions(e, serverConfig) ==
    IF e THEN Some([server |-> [function |-> serverConfig]]) ELSE None

S3Origin(meta) ==
    [s3 |-> [copy |-> << [from            |-> meta.assetsPath,
                          to              |-> "",
                          cached          |-> TRUE,
                          versionedSubDir |-> meta.assetsVersionedSubDir] >>]]

\* origins that hold the server origin in edge mode too
PlanOriginsAlwaysServer(e, serverConfig, meta) ==
    [server |-> [server |-> [function |-> serverConfig]],
     s3     |-> S3Origin(meta)]

\* { ...(edge ? {} : { server: {...} }), s3: {...} }
PlanOrigins(e, serverConfig, meta) ==
    IF e THEN [s3 |-> S3Origin(meta)]
    ELSE [server |-> [server |-> [function |-> serverConfig]],
          s3     |-> S3Origin(meta)]

\* a server behavior that names the edge function in regional mode too
ServerBehaviorAlwaysEdge(e) ==
    [cacheType    |-> "server",
     cfFunction   |-> "serverCfFunction",
     edgeFunction |-> "server",
     origin       |-> IF e THEN "s3" ELSE "server"]

\* the first element of behaviors
ServerBehavior(e) ==
    IF e THEN [cacheType    |-> "server",
               cfFunction   |-> "serverCfFunction",
               edgeFunction |-> "server",
               origin       |-> "s3"]
    ELSE [cacheType  |-> "server",
          cfFunction |-> "serverCfFunction",
          origin     |-> "server"]

\* a static behavior that gets the server's request-transform function
\* when its pattern is a wildcard
StaticBehaviorByPattern(route) ==
    [cacheType  |-> "static",
     pattern    |-> route,
     cfFunction |-> IF route # <<>> /\ route[Len(route)] = "*"
                    THEN "serverCfFunction" ELSE "staticCfFunction",
     origin     |-> "s3"]

StaticBehavior(route) ==
    [cacheType  |-> "static",
     pattern    |-> route,
     cfFunction |-> "staticCfFunction",
     origin     |-> "s3"]

\* static behaviors that miss the first route
StaticBehaviorsSkipFirst(routes) ==
    [i \in 1..(Len(routes) - 1) |-> StaticBehavior(routes[i + 1])]

\* static behaviors in the reverse of the enumeration order
StaticBehaviorsReversed(routes) ==
    [i \in 1..Len(routes) |-> StaticBehavior(routes[Len(routes) + 1 - i])]

\* ...buildMeta.staticRoutes.map(route => ...)
StaticBehaviors(routes) == [i \in 1..Len(routes) |-> StaticBehavior(routes[i])]

\* behaviors: [ server behavior, ...static behaviors ]
PlanBehaviors(e, routes) == << ServerBehavior(e) >> \o StaticBehaviors(routes)

buildPlanInput(vite, outputPath, e, meta) ==
    LET serverConfig == createServerLambdaBundle(vite, outputPath, WrapperFileOf(e))
    IN  [edge                |-> e,
         cloudFrontFunctions |-> PlanCloudFrontFunctions,
         edgeFunctions       |-> PlanEdgeFunctions(e, serverConfig),
         origins             |-> PlanOrigins(e, serverConfig, meta),
         behaviors           |-> PlanBehaviors(e, meta.staticRoutes)]

-----------------------------------------------------------------------------
(* validatePlan (ssr-site): the four checks of the plan validator, all     *)
(* evaluated, and the plan handed back unchanged when none fails           *)

EdgeFunctionKeys(p) ==
    IF p.edgeFunctions.some THEN DOMAIN p.edgeFunctions.value ELSE {}

IsServerBehavior(b) == b.cacheType = "server"
IsStaticBehavior(b) == b.cacheType = "static"

\* a behavior names an origin or an edge function the plan does not hold
HasUnresolvedReference(p) ==
    \E i \in 1..Len(p.behaviors) :
        \/ p.behaviors[i].origin \notin DOMAIN p.origins
        \/ /\ "edgeFunction" \in DOMAIN p.behaviors[i]
           /\ p.behaviors[i].edgeFunction \notin EdgeFunctionKeys(p)

\* exactly one catch-all behavior, positioned last
CatchAllIsLast(p) ==
    /\ Len(p.behaviors) > 0
    /\ Cardinality({i \in 1..Len(p.behaviors) : IsServerBehavior(p.behaviors[i])}) = 1
    /\ IsServerBehavior(p.behaviors[Len(p.behaviors)])

\* a duplicate check that compares neighbours only
HasAdjacentDuplicatePattern(p) ==
    \E i \in 1..(Len(p.behaviors) - 1) :
        /\ IsStaticBehavior(p.behaviors[i])
        /\ IsStaticBehavior(p.behaviors[i + 1])
        /\ p.behaviors[i].pattern = p.behaviors[i + 1].pattern

\* two static behaviors share a pattern
HasDuplicatePattern(p) ==
    \E i, j \in 1..Len(p.behaviors) :
        /\ i < j
        /\ IsStaticBehavior(p.behaviors[i])
        /\ IsStaticBehavior(p.behaviors[j])
        /\ p.behaviors[i].pattern = p.behaviors[j].pattern

\* a contradiction check that looks at the edge flag only
HasEdgeFlagContradiction(p) ==
    /\ p.edge
    /\ \E o \in DOMAIN p.origins : "server" \in DOMAIN p.origins[o]

\* edge mode together with a server-typed origin
HasEdgeRegionalContradiction(p) ==
    /\ p.edge \/ EdgeFunctionKeys(p) # {}
    /\ \E o \in DOMAIN p.origins : "server" \in DOMAIN p.origins[o]

\* a validator that stops at the first violation it finds
PlanViolationsFirstOnly(p) ==
    IF HasUnresolvedReference(p) THEN {"UnresolvedReference"}
    ELSE IF ~CatchAllIsLast(p) THEN {"CatchAllNotLast"}
    ELSE IF HasDuplicatePattern(p) THEN {"DuplicatePattern"}
    ELSE IF HasEdgeRegionalContradiction(p) THEN {"EdgeRegionalContradiction"}
    ELSE {}

\* every violation found, not just the first
PlanViolations(p) ==
    {v \in {"UnresolvedReference"} : HasUnresolvedReference(p)}
    \cup {v \in {"CatchAllNotLast"} : ~CatchAllIsLast(p)}
    \cup {v \in {"DuplicatePattern"} : HasDuplicatePattern(p)}
    \cup {v \in {"EdgeRegionalContradiction"} : HasEdgeRegionalContradiction(p)}

\* a validator that sets the edge flag from the edge functions it finds
validatePlanDefaulting(p) ==
    IF PlanViolations(p) = {}
    THEN [ok |-> TRUE, plan |-> [p EXCEPT !.edge = (EdgeFunctionKeys(p) # {})]]
    ELSE [ok |-> FALSE,
          error |-> [name       |-> "ValidationError",
                     thrownBy   |-> "validatePlan",
                     violations |-> PlanViolations(p)]]

\* the same plan, unchanged, or a ValidationError listing the violations
validatePlan(p) ==
    IF PlanViolations(p) = {}
    THEN [ok |-> TRUE, plan |-> p]
    ELSE [ok |-> FALSE,
          error |-> [name       |-> "ValidationError",
                     thrownBy   |-> "validatePlan",
                     violations |-> PlanViolations(p)]]

-----------------------------------------------------------------------------
(* createServersAndDistribution, registerOutputs *)

RECURSIVE SetToSeq(_)
SetToSeq(S) ==
    IF S = {} THEN <<>>
    ELSE LET x == CHOOSE y \in S : TRUE IN << x >> \o SetToSeq(S \ {x})

FunctionHandle(name) == [arn |-> "arn:" \o name]

\* the URLs a distribution can have: a custom domain is optional
DomainUrls == Option({"https://example.com"})
CloudFrontUrl == "https://d111.cloudfront.net"

\* the regional functions of a plan's server-typed origins, and its edge functions
SsrFunctionNames(p) == {k \in DOMAIN p.origins : "server" \in DOMAIN p.origins[k]}

RECURSIVE Reversed(_)
Reversed(seq) ==
    IF seq = <<>> THEN <<>> ELSE Append(Reversed(Tail(seq)), Head(seq))

\* an adapter that hands the behaviors to the distribution last-first
createServersAndDistributionReordering(p, domainUrl) ==
    [created       |-> SetToSeq({FunctionHandle(f).arn :
                                     f \in SsrFunctionNames(p) \cup EdgeFunctionKeys(p)})
                       \o << "distribution" >>,
     distribution  |-> [origins   |-> DOMAIN p.origins,
                        behaviors |-> Reversed(p.behaviors),
                        domainUrl |-> domainUrl,
                        url       |-> CloudFrontUrl],
     ssrFunctions  |-> SetToSeq({FunctionHandle(o) : o \in SsrFunctionNames(p)}),
     edgeFunctions |-> {FunctionHandle(f) : f \in EdgeFunctionKeys(p)}]

\* functions and storage origins first, then the distribution over the
\* plan's origins and its behaviors in the plan's order; created lists what
\* the call creates, in the order it creates it
createServersAndDistribution(p, domainUrl) ==
    [created       |-> SetToSeq({FunctionHandle(f).arn :
                                     f \in SsrFunctionNames(p) \cup EdgeFunctionKeys(p)})
                       \o << "distribution" >>,
     distribution  |-> [origins   |-> DOMAIN p.origins,
                        behaviors |-> p.behaviors,
                        domainUrl |-> domainUrl,
                        url       |-> CloudFrontUrl],
     ssrFunctions  |-> SetToSeq({FunctionHandle(o) : o \in SsrFunctionNames(p)}),
     edgeFunctions |-> {FunctionHandle(f) : f \in EdgeFunctionKeys(p)}]

\* domainUrl ?? url
UrlOf(cdn) == IF cdn.domainUrl.some THEN cdn.domainUrl.value ELSE cdn.url

\* ssrFunctions[0] ?? Object.values(edgeFunctions)[0]
ServerFunctionOf(s) ==
    IF Len(s.ssrFunctions) > 0 THEN s.ssrFunctions[1]
    ELSE CHOOSE f \in s.edgeFunctions : TRUE

\* a url getter that always answers with the autogenerated URL
RemixUrlAutogenerated(s) == s.distribution.url

\* public get url(): this.cdn is the distribution; domainUrl ?? url
RemixUrl(s) == UrlOf(s.distribution)

\* a link that always carries the autogenerated URL
getSSTLinkAutogenerated(s) == [properties |-> [url |-> s.distribution.url]]

\* getSSTLink(): { properties: { url: this.url } }
getSSTLink(s) == [properties |-> [url |-> RemixUrl(s)]]

SitePath == "."

\* outputs that report every site as deployed
RegisteredOutputsAlwaysDeployed(d, e, s) ==
    [hint     |-> IF d THEN None ELSE Some(UrlOf(s.distribution)),
     metadata |-> [mode   |-> "deployed",
                   path   |-> SitePath,
                   url    |-> UrlOf(s.distribution),
                   edge   |-> e,
                   server |-> ServerFunctionOf(s).arn]]

RegisteredOutputs(d, e, s) ==
    [hint     |-> IF d THEN None ELSE Some(UrlOf(s.distribution)),
     metadata |-> [mode   |-> IF d THEN "placeholder" ELSE "deployed",
                   path   |-> SitePath,
                   url    |-> UrlOf(s.distribution),
                   edge   |-> e,
                   server |-> ServerFunctionOf(s).arn]]

-----------------------------------------------------------------------------
(* The constructor, statement by statement.  The values the statements    *)
(* pass on are Outputs: a step acts when the values it reads are resolved. *)
(* createBucket reads none of the build's values, so it has acted before   *)
(* buildApp, the loader and buildPlan; these follow one another in the     *)
(* order of their data dependencies, which is the order of the statements. *)

ArgsSet == [edge : Option(BOOLEAN)]

\* invalidation?: { paths, wait }
InvalidationPolicies == [paths : {"all"}, wait : BOOLEAN]

\* @default { paths: "all", wait: false }
DefaultInvalidation == [paths |-> "all", wait |-> FALSE]

\* the invalidation before the deploy has asked for it
NotInvalidated(given) ==
    [policy  |-> IF given.some THEN given.value ELSE DefaultInvalidation,
     request |-> "none",
     call    |-> "notCalled",
     warning |-> None]

NoDirs == [p \in AssetDirs |-> None]

Init ==
    /\ dev \in BOOLEAN
    /\ args \in ArgsSet
    /\ disk \in {d \in Disks : d.dirs = NoDirs}
    /\ pc = "normalizeEdge"
    /\ calls = <<>>
    /\ edge = FALSE
    /\ isUsingVite = FALSE
    /\ loaderReads = {}
    /\ buildMeta = None
    /\ written = {}
    /\ built = None
    /\ plan = None
    /\ site = None
    /\ outputs = None
    /\ error = None
    /\ uploaded = {}
    /\ invalidation = NotInvalidated(None)
    /\ userPool = None

\* const edge = normalizeEdge();
NormalizeEdge ==
    /\ pc = "normalizeEdge"
    /\ edge' = normalizeEdge(args)
    /\ calls' = Append(calls, "normalizeEdge")
    /\ pc' = "prepare"
    /\ UNCHANGED <<uploaded, invalidation, userPool>>
    /\ UNCHANGED <<dev, args, disk, isUsingVite, loaderReads, buildMeta,
                   written, built, plan, site, outputs, error>>

\* const { sitePath, partition, region } = prepare(args, opts);
Prepare ==
    /\ pc = "prepare"
    /\ calls' = Append(calls, "prepare")
    /\ pc' = "checkIsUsingVite"
    /\ UNCHANGED <<uploaded, invalidation, userPool>>
    /\ UNCHANGED <<dev, args, disk, edge, isUsingVite, loaderReads, buildMeta,
                   written, built, plan, site, outputs, error>>

\* const isUsingVite = checkIsUsingVite();
CheckIsUsingVite ==
    /\ pc = "checkIsUsingVite"
    /\ isUsingVite' = checkIsUsingVite(disk)
    /\ calls' = Append(calls, "checkIsUsingVite")
    /\ pc' = "createBucket"
    /\ UNCHANGED <<uploaded, invalidation, userPool>>
    /\ UNCHANGED <<dev, args, disk, edge, loaderReads, buildMeta,
                   written, built, plan, site, outputs, error>>

\* const { access, bucket } = createBucket(parent, name, partition, args);
CreateBucket ==
    /\ pc = "createBucket"
    /\ calls' = Append(calls, "createBucket")
    /\ pc' = "buildApp"
    /\ UNCHANGED <<uploaded, invalidation, userPool>>
    /\ UNCHANGED <<dev, args, disk, edge, isUsingVite, loaderReads, buildMeta,
                   written, built, plan, site, outputs, error>>

\* const outputPath = buildApp(name, args, sitePath);
\* the framework's build leaves any output, or none, under outputPath
BuildApp ==
    /\ pc = "buildApp"
    /\ \E dirs \in BuildOutputs :
           disk' = [disk EXCEPT !.dirs = dirs]
    /\ calls' = Append(calls, "buildApp")
    /\ pc' = "loadBuildOutput"
    /\ UNCHANGED <<uploaded, invalidation, userPool>>
    /\ UNCHANGED <<dev, args, edge, isUsingVite, loaderReads, buildMeta,
                   written, built, plan, site, outputs, error>>

\* const { buildMeta } = loadBuildOutput();
\* the Cache resource hands back, as cache.data, the data it was given
LoadBuildOutput ==
    /\ pc = "loadBuildOutput"
    /\ calls' = Append(calls, "loadBuildOutput")
    /\ LET data == BuildOutputData(dev, disk, OutputPath, isUsingVite)
       IN  /\ loaderReads' = loaderReads \cup data.reads
           /\ IF data.ok
              THEN /\ buildMeta' = Some(data.value)
                   /\ pc' = "buildPlan"
                   /\ UNCHANGED error
              ELSE /\ error' = Some(data.error)
                   /\ pc' = "failed"
                   /\ UNCHANGED buildMeta
    /\ UNCHANGED <<uploaded, invalidation, userPool>>
    /\ UNCHANGED <<dev, args, disk, edge, isUsingVite,
                   written, built, plan, site, outputs>>

\* a buildPlan that passes the literal on without waiting for validatePlan
BuildPlanUnvalidated ==
    /\ pc = "buildPlan"
    /\ calls' = Append(calls, "buildPlan")
    /\ written' = written \cup
           BundleWrites(isUsingVite, OutputPath, WrapperFileOf(edge))
    /\ built' = Some(buildPlanInput(isUsingVite, OutputPath, edge, buildMeta.value))
    /\ plan' = built'
    /\ pc' = "createServersAndDistribution"
    /\ UNCHANGED <<uploaded, invalidation, userPool>>
    /\ UNCHANGED <<dev, args, disk, edge, isUsingVite, loaderReads,
                   buildMeta, site, outputs, error>>

\* const plan = buildPlan();
BuildPlan ==
    /\ pc = "buildPlan"
    /\ calls' = Append(calls, "buildPlan")
    /\ written' = written \cup
           BundleWrites(isUsingVite, OutputPath, WrapperFileOf(edge))
    /\ LET input  == buildPlanInput(isUsingVite, OutputPath, edge, buildMeta.value)
           result == validatePlan(input)
       IN  /\ built' = Some(input)
           /\ IF result.ok
              THEN /\ plan' = Some(result.plan)
                   /\ pc' = "createServersAndDistribution"
                   /\ UNCHANGED error
              ELSE /\ error' = Some(result.error)
                   /\ pc' = "failed"
                   /\ UNCHANGED plan
    /\ UNCHANGED <<uploaded, invalidation, userPool>>
    /\ UNCHANGED <<dev, args, disk, edge, isUsingVite, loaderReads,
                   buildMeta, site, outputs>>

\* createServersAndDistribution(parent, name, args, outputPath, access, bucket, plan)
CreateServersAndDistribution ==
    /\ pc = "createServersAndDistribution"
    /\ \E domainUrl \in DomainUrls :
           site' = Some(createServersAndDistribution(plan.value, domainUrl))
    /\ calls' = Append(calls, "createServersAndDistribution")
    /\ pc' = "registerOutputs"
    /\ UNCHANGED <<uploaded, invalidation, userPool>>
    /\ UNCHANGED <<dev, args, disk, edge, isUsingVite, loaderReads, buildMeta,
                   written, built, plan, outputs, error>>

\* this.registerOutputs({ _hint, _metadata })
RegisterOutputs ==
    /\ pc = "registerOutputs"
    /\ outputs' = Some(RegisteredOutputs(dev, edge, site.value))
    /\ calls' = Append(calls, "registerOutputs")
    /\ pc' = "done"
    /\ UNCHANGED <<uploaded, invalidation, userPool>>
    /\ UNCHANGED <<dev, args, disk, edge, isUsingVite, loaderReads,
                   buildMeta, written, built, plan, site, error>>

Next ==
    \/ NormalizeEdge
    \/ Prepare
    \/ CheckIsUsingVite
    \/ CreateBucket
    \/ BuildApp
    \/ LoadBuildOutput
    \/ BuildPlan
    \/ CreateServersAndDistribution
    \/ RegisterOutputs

Spec == Init /\ [][Next]_vars

-----------------------------------------------------------------------------
(* validatePlan on its own: any plan of a bounded shape is validated, and  *)
(* an accepted plan is validated a second time                             *)

TestPatterns == { <<"a">>, <<"a", "/", "*">> }

TestServerConfig ==
    createServerLambdaBundle(FALSE, OutputPath, WrapperFileOf(FALSE))

TestBehaviors ==
    [cacheType : {"server"}, cfFunction : {"serverCfFunction"},
     origin : {"s3", "server"}]
    \cup [cacheType : {"server"}, cfFunction : {"serverCfFunction"},
          edgeFunction : {"server"}, origin : {"s3", "server"}]
    \cup [cacheType : {"static"}, pattern : TestPatterns,
          cfFunction : {"staticCfFunction"}, origin : {"s3", "server"}]

TestOrigins ==
    { PlanOrigins(e, TestServerConfig, loadBuildMetadataPlaceholder) : e \in BOOLEAN }

TestEdgeFunctions ==
    { PlanEdgeFunctions(e, TestServerConfig) : e \in BOOLEAN }

TestPlans ==
    [edge                : BOOLEAN,
     cloudFrontFunctions : {PlanCloudFrontFunctions},
     edgeFunctions       : TestEdgeFunctions,
     origins             : TestOrigins,
     behaviors           : SeqsUpTo(TestBehaviors, MaxBehaviors)]

ValidatorInit ==
    /\ dev = FALSE
    /\ args = [edge |-> None]
    /\ disk = [files |-> {}, dirs |-> NoDirs]
    /\ pc = "validatePlan"
    /\ calls = <<>>
    /\ edge = FALSE
    /\ isUsingVite = FALSE
    /\ loaderReads = {}
    /\ buildMeta = None
    /\ written = {}
    /\ built \in {Some(p) : p \in TestPlans}
    /\ plan = None
    /\ site = None
    /\ outputs = None
    /\ error = None
    /\ uploaded = {}
    /\ invalidation = NotInvalidated(None)
    /\ userPool = None

\* validatePlan(p)
ValidateGiven ==
    /\ pc = "validatePlan"
    /\ LET result == validatePlan(built.value)
       IN  IF result.ok
           THEN /\ plan' = Some(result.plan)
                /\ pc' = "validatePlanAgain"
                /\ UNCHANGED error
           ELSE /\ error' = Some(result.error)
                /\ pc' = "rejected"
                /\ UNCHANGED plan
    /\ UNCHANGED <<uploaded, invalidation, userPool>>
    /\ UNCHANGED <<dev, args, disk, calls, edge, isUsingVite, loaderReads,
                   buildMeta, written, built, site, outputs>>

\* validatePlan(validatePlan(p))
ValidateAgain ==
    /\ pc = "validatePlanAgain"
    /\ LET result == validatePlan(plan.value)
       IN  IF result.ok
           THEN /\ plan' = Some(result.plan)
                /\ pc' = "accepted"
                /\ UNCHANGED error
           ELSE /\ error' = Some(result.error)
                /\ plan' = None
                /\ pc' = "rejected"
    /\ UNCHANGED <<uploaded, invalidation, userPool>>
    /\ UNCHANGED <<dev, args, disk, calls, edge, isUsingVite, loaderReads,
                   buildMeta, written, built, site, outputs>>

ValidatorNext == ValidateGiven \/ ValidateAgain

ValidatorSpec == ValidatorInit /\ [][ValidatorNext]_vars

-----------------------------------------------------------------------------
(* Properties of the plan builder *)

Count(seq, Test(_)) == Cardinality({i \in 1..Len(seq) : Test(seq[i])})

StaticOf(behaviors) == SelectSeq(behaviors, IsStaticBehavior)

\* C1: a plan built from N static routes has exactly N static behaviors and
\* exactly one server behavior, N + 1 behaviors in all, in either edge mode
C1_StaticAndServerCounts ==
    built.some =>
        LET b == built.value.behaviors
            n == Len(buildMeta.value.staticRoutes)
        IN  /\ Count(b, IsStaticBehavior) = n
            /\ Count(b, IsServerBehavior) = 1
            /\ Len(b) = n + 1

C1_Witness ==
    /\ built.some
    /\ ~dev
    /\ Len(buildMeta.value.staticRoutes) >= 2

\* C2: the catch-all server behavior is the last element of the behaviors
\* list, after every static behavior
C2_CatchAllLast ==
    built.some =>
        LET b == built.value.behaviors
        IN  /\ IsServerBehavior(b[Len(b)])
            /\ \A i \in 1..(Len(b) - 1) : IsStaticBehavior(b[i])

\* C3: the i-th static behavior carries the i-th static route as its pattern
\* and points at the storage origin "s3"
C3_StaticBehaviorsFollowRoutes ==
    built.some =>
        LET st     == StaticOf(built.value.behaviors)
            routes == buildMeta.value.staticRoutes
        IN  /\ Len(st) = Len(routes)
            /\ \A i \in 1..Len(st) :
                   st[i].pattern = routes[i] /\ st[i].origin = "s3"

C3_Witness ==
    /\ built.some
    /\ Len(buildMeta.value.staticRoutes) >= 2
    /\ buildMeta.value.staticRoutes[1] # buildMeta.value.staticRoutes[2]
    /\ edge

\* C4: the loader gives one pattern per immediate child of the assets
\* directory, in listing order: "X/*" for a directory X, "X" for a file X;
\* files inside a sub-directory give no pattern
C4_RoutesFromImmediateChildren ==
    (~dev /\ buildMeta.some) =>
        LET listing == disk.dirs[PathJoin(OutputPath, buildMeta.value.assetsPath)].value
            routes  == buildMeta.value.staticRoutes
        IN  /\ Len(routes) = Len(listing)
            /\ \A i \in 1..Len(listing) :
                   routes[i] = IF listing[i].isDirectory
                               THEN listing[i].name \o <<"/", "*">>
                               ELSE listing[i].name

C4_Witness ==
    /\ ~dev
    /\ buildMeta.some
    /\ LET listing == disk.dirs[PathJoin(OutputPath, buildMeta.value.assetsPath)].value
       IN  /\ Len(listing) >= 2
           /\ listing[1].isDirectory
           /\ listing[1].children # <<>>
           /\ ~listing[2].isDirectory

\* the catch-all behaviors of a plan: its server-typed behaviors
ServerOf(behaviors) == SelectSeq(behaviors, IsServerBehavior)

\* C5: in edge mode the plan holds exactly one edge function, "server", its
\* only origin is the storage origin "s3", and the catch-all behavior has
\* edgeFunction "server" and origin "s3"
C5_EdgePlanShape ==
    (built.some /\ edge) =>
        LET p  == built.value
            sv == ServerOf(p.behaviors)
        IN  /\ p.edgeFunctions.some
            /\ DOMAIN p.edgeFunctions.value = {"server"}
            /\ DOMAIN p.origins = {"s3"}
            /\ Len(sv) = 1
            /\ "edgeFunction" \in DOMAIN sv[1]
            /\ sv[1].edgeFunction = "server"
            /\ sv[1].origin = "s3"

C5_Witness ==
    /\ built.some
    /\ edge
    /\ ~dev
    /\ Len(built.value.behaviors) >= 2

\* C6: in regional mode the plan has no edge functions (undefined), holds a
\* function-backed origin "server" for the regional server function next to
\* the storage origin "s3", and the catch-all behavior has origin "server"
\* and no edgeFunction
C6_RegionalPlanShape ==
    (built.some /\ ~edge) =>
        LET p  == built.value
            sv == ServerOf(p.behaviors)
        IN  /\ p.edgeFunctions = None
            /\ DOMAIN p.origins = {"server", "s3"}
            /\ DOMAIN p.origins["server"] = {"server"}
            /\ p.origins["server"].server.function.handler = "out/build/server.handler"
            /\ \E w \in written :
                   /\ w.path = "out/build/server.mjs"
                   /\ w.content[Len(w.content)] =
                          "platform/functions/remix-server/regional-server.mjs"
            /\ DOMAIN p.origins["s3"] = {"s3"}
            /\ Len(sv) = 1
            /\ sv[1].origin = "server"
            /\ "edgeFunction" \notin DOMAIN sv[1]

C6_Witness ==
    /\ built.some
    /\ ~edge
    /\ ~args.edge.some
    /\ Len(built.value.behaviors) >= 2

\* C7: every reference of a built plan resolves inside the plan: the origin
\* of each behavior is a key of origins, its edgeFunction (when set) a key of
\* edgeFunctions, its cfFunction a key of cloudFrontFunctions
C7_ReferencesResolve ==
    built.some =>
        LET p == built.value
        IN  \A i \in 1..Len(p.behaviors) :
                LET b == p.behaviors[i]
                IN  /\ b.origin \in DOMAIN p.origins
                    /\ b.cfFunction \in DOMAIN p.cloudFrontFunctions
                    /\ ("edgeFunction" \in DOMAIN b =>
                            /\ p.edgeFunctions.some
                            /\ b.edgeFunction \in DOMAIN p.edgeFunctions.value)

C7_Witness ==
    /\ built.some
    /\ edge
    /\ Len(built.value.behaviors) = 3
    /\ "edgeFunction" \in DOMAIN built.value.behaviors[1]

-----------------------------------------------------------------------------
(* Properties of the build metadata loader and of the constructor's order *)

Invoked(step) == \E i \in 1..Len(calls) : calls[i] = step

\* the assets directory the constructor is expected to list
ExpectedAssetsDir ==
    IF isUsingVite THEN "out/build/client" ELSE "out/public"

\* the failure the design calls BuildOutputMissing: the loader could not list
\* the assets directory
BuildOutputMissing ==
    /\ pc = "failed"
    /\ error.some
    /\ error.value.thrownBy = "loadBuildMetadata"
    /\ error.value.name = "ENOENT"

\* C8: in dev mode the build metadata is the fixed placeholder, whatever is
\* on disk, and the loader lists no directory
C8_PlaceholderInDev ==
    (dev /\ Invoked("loadBuildOutput")) =>
        /\ buildMeta.some
        /\ buildMeta.value.assetsPath = "placeholder"
        /\ buildMeta.value.assetsVersionedSubDir = None
        /\ buildMeta.value.staticRoutes =
               << <<"a", "s", "s", "e", "t", "s", "/", "*">>,
                  <<"f", "a", "v", "i", "c", "o", "n", ".", "i", "c", "o">> >>
        /\ loaderReads = {}
        /\ ~BuildOutputMissing

C8_Witness ==
    /\ dev
    /\ Invoked("loadBuildOutput")
    /\ \E p \in AssetDirs : disk.dirs[p].some /\ Len(disk.dirs[p].value) = 2

\* C9: outside dev mode a missing assets directory makes the loader fail with
\* BuildOutputMissing, and neither build metadata nor a plan is produced; in
\* dev mode the same missing directory causes no failure
C9_MissingAssetsDirFails ==
    (Invoked("loadBuildOutput") /\ ~disk.dirs[ExpectedAssetsDir].some) =>
        IF dev
        THEN buildMeta.some /\ ~BuildOutputMissing
        ELSE /\ BuildOutputMissing
             /\ buildMeta = None
             /\ built = None
             /\ plan = None

C9_Witness ==
    /\ ~dev
    /\ Invoked("loadBuildOutput")
    /\ ~disk.dirs[ExpectedAssetsDir].some
    /\ \E p \in AssetDirs : disk.dirs[p].some

\* C10: when the build output is missing, no resource-creating step
\* (createBucket, createServersAndDistribution) has been invoked
C10_NoProvisioningBeforeLoaderFails ==
    BuildOutputMissing =>
        /\ ~Invoked("createBucket")
        /\ ~Invoked("createServersAndDistribution")

-----------------------------------------------------------------------------
(* Properties of validation inside the constructor *)

ValidationFailed ==
    /\ pc = "failed"
    /\ error.some
    /\ error.value.name = "ValidationError"

\* C11: the plan reaches createServersAndDistribution only as the value
\* validatePlan returned for the built literal, and after a ValidationError
\* the servers and the distribution are never created
C11_ProvisionOnlyValidatedPlan ==
    /\ plan.some =>
           /\ Invoked("buildPlan")
           /\ built.some
           /\ validatePlan(built.value).ok
           /\ plan.value = validatePlan(built.value).plan
    /\ Invoked("createServersAndDistribution") => plan.some /\ ~error.some
    /\ ValidationFailed =>
           /\ plan = None
           /\ site = None
           /\ ~Invoked("createServersAndDistribution")

C11_Witness ==
    /\ ValidationFailed
    /\ ~dev
    /\ Len(built.value.behaviors) >= 2

-----------------------------------------------------------------------------
(* The constructor from the point where buildPlan has returned: the plan  *)
(* is any bounded plan validatePlan accepts that holds a server function  *)

ProvisionablePlans ==
    {p \in TestPlans :
        /\ validatePlan(p).ok
        /\ SsrFunctionNames(p) \cup EdgeFunctionKeys(p) # {}}

AdapterInit ==
    /\ dev \in BOOLEAN
    /\ args = [edge |-> None]
    /\ disk = [files |-> {}, dirs |-> NoDirs]
    /\ pc = "createServersAndDistribution"
    /\ calls = << "normalizeEdge", "prepare", "checkIsUsingVite", "createBucket",
                  "buildApp", "loadBuildOutput", "buildPlan" >>
    /\ isUsingVite = FALSE
    /\ loaderReads = {}
    /\ buildMeta = None
    /\ written = {}
    /\ plan \in {Some(p) : p \in ProvisionablePlans}
    /\ built = plan
    /\ edge = plan.value.edge
    /\ site = None
    /\ outputs = None
    /\ error = None
    /\ uploaded = {}
    /\ invalidation = NotInvalidated(None)
    /\ userPool = None

AdapterNext == CreateServersAndDistribution \/ RegisterOutputs

AdapterSpec == AdapterInit /\ [][AdapterNext]_vars

-----------------------------------------------------------------------------
(* Asset sync and invalidation, after provisioning: the files under the    *)
(* copy entry's directory are uploaded with a cache-control header, then   *)
(* the distribution is invalidated as the invalidation policy says         *)

\* versionedFilesCacheHeader, nonVersionedFilesCacheHeader
VersionedFilesCacheHeader == "public,max-age=31536000,immutable"
NonVersionedFilesCacheHeader ==
    "public,max-age=0,s-maxage=86400,stale-while-revalidate=8640"

RECURSIVE TextOf(_)
TextOf(name) == IF name = <<>> THEN "" ELSE Head(name) \o TextOf(Tail(name))

\* the files below a listed directory, each as its path segments
AssetFilesOf(d, p) ==
    LET listing == d.dirs[p].value
    IN  UNION { IF listing[i].isDirectory
                THEN { << listing[i].name, listing[i].children[k] >> :
                           k \in 1..Len(listing[i].children) }
                ELSE { << listing[i].name >> } : i \in 1..Len(listing) }

\* a sync that takes every file inside a directory for a versioned one
CacheControlOfAnyDirectory(copy, file) ==
    IF copy.versionedSubDir.some /\ Len(file) > 1
    THEN VersionedFilesCacheHeader
    ELSE NonVersionedFilesCacheHeader

\* the header of a file: long-lived below versionedSubDir, short-lived elsewhere
CacheControlOf(copy, file) ==
    IF /\ copy.versionedSubDir.some
       /\ Len(file) > 1
       /\ TextOf(file[1]) = copy.versionedSubDir.value
    THEN VersionedFilesCacheHeader
    ELSE NonVersionedFilesCacheHeader

\* the objects one copy entry puts into the bucket
UploadedObjects(d, outputPath, copy) ==
    { [from         |-> copy.from,
       key          |-> file,
       cacheControl |-> CacheControlOf(copy, file)] :
          file \in AssetFilesOf(d, PathJoin(outputPath, copy.from)) }

BuildDir == << "b", "u", "i", "l", "d" >>

\* the assets of a build: a top-level file, the build directory, a directory
\* whose name starts with "build", and a directory holding a file named build
SyncEntries ==
    { [name |-> << "f" >>, isDirectory |-> FALSE, children |-> << >>],
      [name |-> BuildDir, isDirectory |-> TRUE, children |-> << << "a" >> >>],
      [name |-> BuildDir \o << "s" >>, isDirectory |-> TRUE,
       children |-> << << "a" >> >>],
      [name |-> << "b" >>, isDirectory |-> TRUE, children |-> << BuildDir >>] }

SyncListings == { SetToSeq(S) : S \in SUBSET SyncEntries }

SyncDisk(vite, listing) ==
    [files |-> IF vite THEN {"vite.config.ts"} ELSE {},
     dirs  |-> [p \in AssetDirs |->
                   IF p = PathJoin(OutputPath, AssetsPathOf(vite))
                   THEN Some(listing) ELSE None]]

DriverInit ==
    /\ dev = FALSE
    /\ edge \in BOOLEAN
    /\ args = [edge |-> Some(edge)]
    /\ isUsingVite \in BOOLEAN
    /\ disk \in { SyncDisk(isUsingVite, l) : l \in SyncListings }
    /\ pc = "uploadAssets"
    /\ calls = << "normalizeEdge", "prepare", "checkIsUsingVite", "createBucket",
                  "buildApp", "loadBuildOutput", "buildPlan",
                  "createServersAndDistribution" >>
    /\ loaderReads = { PathJoin(OutputPath, AssetsPathOf(isUsingVite)) }
    /\ buildMeta = Some(BuildMetadataOf(disk, OutputPath, isUsingVite))
    /\ written = BundleWrites(isUsingVite, OutputPath, WrapperFileOf(edge))
    /\ built = Some(buildPlanInput(isUsingVite, OutputPath, edge, buildMeta.value))
    /\ plan = built
    /\ site = Some(createServersAndDistribution(plan.value, None))
    /\ outputs = None
    /\ error = None
    /\ uploaded = {}
    /\ \E given \in Option(InvalidationPolicies) :
           invalidation = NotInvalidated(given)
    /\ userPool = None

\* upload the files of every copy entry of the storage origin
UploadAssets ==
    /\ pc = "uploadAssets"
    /\ LET copy == plan.value.origins["s3"].s3.copy
       IN  uploaded' = UNION { UploadedObjects(disk, OutputPath, copy[i]) :
                                  i \in 1..Len(copy) }
    /\ pc' = "invalidate"
    /\ UNCHANGED <<invalidation, dev, args, disk, calls, edge, isUsingVite,
                   loaderReads, buildMeta, written, built, plan, site,
                   outputs, error, userPool>>

\* an invalidation that waits for the CDN whatever the policy says
InvalidateBlocking ==
    /\ pc = "invalidate"
    /\ invalidation' = [invalidation EXCEPT !.request = "inProgress",
                                            !.call = "waiting"]
    /\ pc' = "awaitInvalidation"
    /\ UNCHANGED <<uploaded, dev, args, disk, calls, edge, isUsingVite,
                   loaderReads, buildMeta, written, built, plan, site,
                   outputs, error, userPool>>

\* the invalidation request is issued; the call returns at once unless
\* the policy says wait
Invalidate ==
    /\ pc = "invalidate"
    /\ IF invalidation.policy.wait
       THEN /\ invalidation' = [invalidation EXCEPT !.request = "inProgress",
                                                    !.call = "waiting"]
            /\ pc' = "awaitInvalidation"
       ELSE /\ invalidation' = [invalidation EXCEPT !.request = "inProgress",
                                                    !.call = "returned"]
            /\ pc' = "deployed"
    /\ UNCHANGED <<uploaded, dev, args, disk, calls, edge, isUsingVite,
                   loaderReads, buildMeta, written, built, plan, site,
                   outputs, error, userPool>>

\* the CDN confirms that the invalidation is complete; a waiting call returns
CdnConfirms ==
    /\ invalidation.request = "inProgress"
    /\ IF invalidation.call = "waiting"
       THEN /\ invalidation' = [invalidation EXCEPT !.request = "completed",
                                                    !.call = "returned"]
            /\ pc' = "deployed"
       ELSE /\ invalidation' = [invalidation EXCEPT !.request = "completed"]
            /\ UNCHANGED pc
    /\ UNCHANGED <<uploaded, dev, args, disk, calls, edge, isUsingVite,
                   loaderReads, buildMeta, written, built, plan, site,
                   outputs, error, userPool>>

\* the wait gives up: InvalidationTimeout, a warning and not a failed deploy
InvalidationTimeout ==
    /\ invalidation.call = "waiting"
    /\ invalidation.request = "inProgress"
    /\ invalidation' = [invalidation EXCEPT
                            !.call = "returned",
                            !.warning = Some("InvalidationTimeout")]
    /\ pc' = "deployed"
    /\ UNCHANGED <<uploaded, dev, args, disk, calls, edge, isUsingVite,
                   loaderReads, buildMeta, written, built, plan, site,
                   outputs, error, userPool>>

DriverNext ==
    \/ UploadAssets
    \/ Invalidate
    \/ CdnConfirms
    \/ InvalidationTimeout

DriverSpec == DriverInit /\ [][DriverNext]_vars

-----------------------------------------------------------------------------
(* The CognitoUserPool component (cognito-user-pool.ts): createUserPool   *)
(* derives the alias and the auto-verified attributes from args.aliases   *)

\* aliases?: ("email" | "phone" | "preferred_username")[]
AliasKinds == {"email", "phone", "preferred_username"}

CognitoArgsSet == [aliases : Option(SeqsUpTo(AliasKinds, MaxAliases))]

\* aliases.includes(kind)
Includes(aliases, kind) == \E i \in 1..Len(aliases) : aliases[i] = kind

\* the alias attributes as one entry per given alias, in the given order
AliasAttributesAsGiven(aliases) ==
    [i \in 1..Len(aliases) |->
        IF aliases[i] = "email" THEN "email"
        ELSE IF aliases[i] = "phone" THEN "phoneNumber"
        ELSE "perferredUsername"]

\* aliasAttributes: [...email, ...phone, ...preferred_username]
AliasAttributes(aliases) ==
    (IF Includes(aliases, "email") THEN << "email" >> ELSE << >>)
    \o (IF Includes(aliases, "phone") THEN << "phoneNumber" >> ELSE << >>)
    \o (IF Includes(aliases, "preferred_username")
        THEN << "perferredUsername" >> ELSE << >>)

\* autoVerifiedAttributes: [...email, ...phone]
AutoVerifiedAttributes(aliases) ==
    (IF Includes(aliases, "email") THEN << "email" >> ELSE << >>)
    \o (IF Includes(aliases, "phone") THEN << "phoneNumber" >> ELSE << >>)

\* new aws.cognito.UserPool(..., { aliasAttributes, autoVerifiedAttributes, ... })
createUserPool(a) ==
    LET aliases == IF a.aliases.some THEN a.aliases.value ELSE << >>
    IN  [aliasAttributes        |-> AliasAttributes(aliases),
         autoVerifiedAttributes |-> AutoVerifiedAttributes(aliases)]

CognitoInit ==
    /\ dev = FALSE
    /\ args \in CognitoArgsSet
    /\ disk = [files |-> {}, dirs |-> NoDirs]
    /\ pc = "createUserPool"
    /\ calls = <<>>
    /\ edge = FALSE
    /\ isUsingVite = FALSE
    /\ loaderReads = {}
    /\ buildMeta = None
    /\ written = {}
    /\ built = None
    /\ plan = None
    /\ site = None
    /\ outputs = None
    /\ error = None
    /\ uploaded = {}
    /\ invalidation = NotInvalidated(None)
    /\ userPool = None

\* const userPool = createUserPool();
CreateUserPool ==
    /\ pc = "createUserPool"
    /\ userPool' = Some(createUserPool(args))
    /\ calls' = Append(calls, "createUserPool")
    /\ pc' = "done"
    /\ UNCHANGED <<dev, args, disk, edge, isUsingVite, loaderReads, buildMeta,
                   written, built, plan, site, outputs, error, uploaded,
                   invalidation>>

CognitoNext == CreateUserPool

CognitoSpec == CognitoInit /\ [][CognitoNext]_vars

-----------------------------------------------------------------------------
(* Properties of validatePlan *)

Validated == pc \in {"validatePlanAgain", "accepted", "rejected"}

Rejected(violation) ==
    /\ pc = "rejected"
    /\ plan = None
    /\ error.some
    /\ error.value.name = "ValidationError"
    /\ violation \in error.value.violations

\* the invariants of a plan, as the design states them
DanglingReference(p) ==
    \E i \in 1..Len(p.behaviors) :
        \/ p.behaviors[i].origin \notin DOMAIN p.origins
        \/ /\ "edgeFunction" \in DOMAIN p.behaviors[i]
           /\ \/ ~p.edgeFunctions.some
              \/ p.behaviors[i].edgeFunction \notin DOMAIN p.edgeFunctions.value

CatchAllMisplaced(p) ==
    \/ Len(ServerOf(p.behaviors)) # 1
    \/ p.behaviors[Len(p.behaviors)].cacheType # "server"

RepeatedStaticPattern(p) ==
    \E i, j \in 1..Len(p.behaviors) :
        /\ i # j
        /\ p.behaviors[i].cacheType = "static"
        /\ p.behaviors[j].cacheType = "static"
        /\ p.behaviors[i].pattern = p.behaviors[j].pattern

HoldsEdgeFunction(p) == p.edgeFunctions.some /\ DOMAIN p.edgeFunctions.value # {}

HoldsServerOrigin(p) == \E o \in DOMAIN p.origins : "server" \in DOMAIN p.origins[o]

\* C12: a plan in which two static behaviors have the same pattern is
\* rejected with a duplicate-pattern error, and never accepted
C12_DuplicatePatternRejected ==
    (Validated /\ RepeatedStaticPattern(built.value)) => Rejected("DuplicatePattern")

C12_Witness ==
    /\ Rejected("DuplicatePattern")
    /\ error.value.violations = {"DuplicatePattern"}

\* C13: a plan that holds an edge function and a server-typed origin at once
\* is rejected, so no accepted plan holds both
C13_EdgeAndServerOriginRejected ==
    /\ (Validated /\ HoldsEdgeFunction(built.value) /\ HoldsServerOrigin(built.value))
           => Rejected("EdgeRegionalContradiction")
    /\ plan.some => ~(HoldsEdgeFunction(plan.value) /\ HoldsServerOrigin(plan.value))

C13_Witness ==
    /\ Rejected("EdgeRegionalContradiction")
    /\ error.value.violations = {"EdgeRegionalContradiction"}
    /\ ~built.value.edge

StatedViolations(p) ==
    {v \in {"UnresolvedReference"} : DanglingReference(p)}
    \cup {v \in {"CatchAllNotLast"} : Len(p.behaviors) = 0 \/ CatchAllMisplaced(p)}
    \cup {v \in {"DuplicatePattern"} : RepeatedStaticPattern(p)}
    \cup {v \in {"EdgeRegionalContradiction"} :
              (p.edge \/ HoldsEdgeFunction(p)) /\ HoldsServerOrigin(p)}

\* C15: the ValidationError of a rejected plan lists every invariant the plan
\* violates, and a plan is rejected exactly when it violates one
C15_AllViolationsEnumerated ==
    Validated =>
        /\ StatedViolations(built.value) = {} => plan.some
        /\ StatedViolations(built.value) # {} =>
               /\ pc = "rejected"
               /\ error.some
               /\ error.value.violations = StatedViolations(built.value)

C15_Witness ==
    /\ pc = "rejected"
    /\ error.some
    /\ error.value.violations =
           {"UnresolvedReference", "CatchAllNotLast",
            "DuplicatePattern", "EdgeRegionalContradiction"}

-----------------------------------------------------------------------------
(* Properties of provisioning and of the registered outputs *)

IndexOf(seq, x) == CHOOSE i \in 1..Len(seq) : seq[i] = x

\* C16: the bucket is created before createServersAndDistribution runs, the
\* functions are created before the distribution, and the distribution
\* holds the plan's behaviors in the plan's order
C16_DependencyOrder ==
    /\ Invoked("createServersAndDistribution") =>
           /\ Invoked("createBucket")
           /\ IndexOf(calls, "createBucket")
                  < IndexOf(calls, "createServersAndDistribution")
    /\ site.some =>
           LET created == site.value.created
           IN  /\ created[Len(created)] = "distribution"
               /\ \A i \in 1..Len(site.value.ssrFunctions) :
                      \E k \in 1..(Len(created) - 1) :
                          created[k] = site.value.ssrFunctions[i].arn
               /\ \A f \in site.value.edgeFunctions :
                      \E k \in 1..(Len(created) - 1) : created[k] = f.arn
               /\ site.value.distribution.behaviors = plan.value.behaviors
               /\ site.value.distribution.origins = DOMAIN plan.value.origins

C16_Witness ==
    /\ site.some
    /\ Len(plan.value.behaviors) = MaxBehaviors
    /\ Len(site.value.created) = 2
    /\ Len(site.value.ssrFunctions) = 1

C18_UrlPrefersDomain ==
    site.some =>
        LET cdn == site.value.distribution
        IN  /\ cdn.domainUrl.some => RemixUrl(site.value) = cdn.domainUrl.value
            /\ ~cdn.domainUrl.some => RemixUrl(site.value) = cdn.url

C18_Witness ==
    /\ site.some
    /\ site.value.distribution.domainUrl.some
    /\ RemixUrl(site.value) = "https://example.com"
    /\ RemixUrl(site.value) # site.value.distribution.url

\* C19: the registered metadata has mode "placeholder" exactly in dev mode
\* and "deployed" otherwise, and carries the site path, the site url, the
\* edge flag and the ARN of the first regional function, or of the edge
\* function when there is no regional one
C19_MetadataRecord ==
    outputs.some =>
        LET md  == outputs.value.metadata
            cdn == site.value.distribution
        IN  /\ md.mode = (IF dev THEN "placeholder" ELSE "deployed")
            /\ md.path = "."
            /\ md.url = (IF cdn.domainUrl.some THEN cdn.domainUrl.value ELSE cdn.url)
            /\ md.edge = edge
            /\ IF site.value.ssrFunctions # <<>>
               THEN md.server = site.value.ssrFunctions[1].arn
               ELSE \E f \in site.value.edgeFunctions : md.server = f.arn

C19_Witness ==
    /\ outputs.some
    /\ dev
    /\ outputs.value.metadata.mode = "placeholder"
    /\ site.value.ssrFunctions = <<>>
    /\ outputs.value.metadata.server = "arn:server"
    /\ outputs.value.metadata.edge

-----------------------------------------------------------------------------
(* Properties of the edge argument *)

\* C20: with the edge argument omitted the component runs as with edge =
\* false: the regional wrapper is written and the edge wrapper is not, the
\* plan has a "server" origin and no edge functions, its server behavior
\* goes to that origin, and the metadata reports edge = false
C20_OmittedEdgeIsRegional ==
    ~args.edge.some =>
        /\ Invoked("normalizeEdge") => ~edge
        /\ built.some =>
               /\ built.value = buildPlanInput(isUsingVite, OutputPath, FALSE, buildMeta.value)
               /\ ~built.value.edge
               /\ built.value.edgeFunctions = None
               /\ "server" \in DOMAIN built.value.origins
               /\ \A i \in 1..Len(built.value.behaviors) :
                      /\ "edgeFunction" \notin DOMAIN built.value.behaviors[i]
                      /\ built.value.behaviors[i].cacheType = "server"
                             => built.value.behaviors[i].origin = "server"
               /\ \A w \in written :
                      w.content[Len(w.content)]
                          # "platform/functions/remix-server/edge-server.mjs"
               /\ \E w \in written :
                      w.content[Len(w.content)]
                          = "platform/functions/remix-server/regional-server.mjs"
        /\ site.some =>
               /\ Len(site.value.ssrFunctions) = 1
               /\ site.value.edgeFunctions = {}
        /\ outputs.some => ~outputs.value.metadata.edge

C20_Witness ==
    /\ ~args.edge.some
    /\ pc = "done"
    /\ outputs.some
    /\ ~outputs.value.metadata.edge
    /\ outputs.value.metadata.server = "arn:server"
    /\ built.value.edgeFunctions = None

-----------------------------------------------------------------------------
(* Properties of the asset sync and of the invalidation *)

CallReturns == invalidation.call # "returned" /\ invalidation'.call = "returned"

\* C21: with wait = false, which is also the policy when none is given, the
\* invalidation call returns while the CDN has not confirmed completion;
\* with wait = true the call returns only on the CDN's confirmation or on
\* an InvalidationTimeout, and stays blocked until then
C21_InvalidationWait ==
    /\ [](invalidation.call = "waiting" =>
              invalidation.policy.wait /\ invalidation.request = "inProgress")
    /\ [][CallReturns =>
              IF invalidation.policy.wait
              THEN \/ /\ invalidation'.request = "completed"
                      /\ invalidation'.warning = None
                   \/ /\ invalidation'.request = "inProgress"
                      /\ invalidation'.warning = Some("InvalidationTimeout")
              ELSE /\ invalidation'.request = "inProgress"
                   /\ invalidation'.warning = None]_vars

C21_Witness ==
    /\ invalidation.policy = [paths |-> "all", wait |-> FALSE]
    /\ invalidation.call = "returned"
    /\ invalidation.request = "inProgress"
    /\ uploaded # {}

CopyEntryShape ==
    built.some =>
        LET copy == built.value.origins["s3"].s3.copy
        IN  /\ DOMAIN built.value.origins["s3"] = {"s3"}
            /\ Len(copy) = 1
            /\ copy[1].from = buildMeta.value.assetsPath
            /\ copy[1].to = ""
            /\ copy[1].cached
            /\ copy[1].versionedSubDir = buildMeta.value.assetsVersionedSubDir

\* C22: the storage origin has exactly one copy entry, from assetsPath to
\* the bucket root, cached, with assetsVersionedSubDir as versionedSubDir;
\* every file of the assets directory is uploaded, the files below that
\* sub-directory with the long-lived immutable header and all others with
\* the short-lived one, so with no versioned sub-directory none is long-lived
C22_CopyEntryAndCacheHeaders ==
    /\ CopyEntryShape
    /\ pc # "uploadAssets" =>
           /\ { o.key : o \in uploaded } =
                  AssetFilesOf(disk, PathJoin(OutputPath, buildMeta.value.assetsPath))
           /\ \A o \in uploaded :
                  o.cacheControl =
                      IF /\ buildMeta.value.assetsVersionedSubDir = Some("build")
                         /\ Len(o.key) > 1
                         /\ o.key[1] = << "b", "u", "i", "l", "d" >>
                      THEN "public,max-age=31536000,immutable"
                      ELSE "public,max-age=0,s-maxage=86400,stale-while-revalidate=8640"
           /\ buildMeta.value.assetsVersionedSubDir = None =>
                  \A o \in uploaded :
                      o.cacheControl # "public,max-age=31536000,immutable"

C22_Witness ==
    /\ pc # "uploadAssets"
    /\ ~isUsingVite
    /\ \E o \in uploaded :
           /\ o.key[1] = BuildDir
           /\ o.cacheControl = VersionedFilesCacheHeader
    /\ \E o \in uploaded :
           /\ Len(o.key) > 1
           /\ o.cacheControl = NonVersionedFilesCacheHeader

-----------------------------------------------------------------------------
(* Properties of the server wrapper and of the request-transform functions *)

\* the server function config a built plan stores
ServerConfigOf(p) ==
    IF p.edgeFunctions.some
    THEN p.edgeFunctions.value["server"].function
    ELSE p.origins["server"].server.function

\* the wrapper at the end of the written server module
WrittenWrapper ==
    LET w == CHOOSE x \in written : x.path = "out/build/server.mjs"
    IN  w.content[Len(w.content)]

\* C23: the wrapper is chosen when the plan is built and from edge alone,
\* edge-server.mjs in edge mode and regional-server.mjs otherwise; the
\* function config the plan stores names the handler of the module that
\* carries it, and no later step changes the module or the config
C23_WrapperChosenAtBuildPlan ==
    /\ [](~Invoked("buildPlan") => written = {})
    /\ [](Invoked("buildPlan") =>
              /\ WrittenWrapper =
                     IF edge THEN "platform/functions/remix-server/edge-server.mjs"
                     ELSE "platform/functions/remix-server/regional-server.mjs"
              /\ ServerConfigOf(built.value).handler = "out/build/server.handler")
    /\ [][Invoked("buildPlan") =>
              /\ written' = written
              /\ built' = built
              /\ edge' = edge]_vars

C23_Witness ==
    /\ pc = "done"
    /\ edge
    /\ WrittenWrapper = "platform/functions/remix-server/edge-server.mjs"
    /\ site.value.edgeFunctions # {}

\* C24: the request-transform function of a behavior follows from its
\* cache type alone: staticCfFunction, whose injections start with the
\* URL-encoding of every path segment, for a static behavior, and
\* serverCfFunction, which holds the Host-header injection, for the server
\* behavior, whatever edge, dev, the bundler and the routes are
C24_CfFunctionByCacheType ==
    built.some =>
        LET p == built.value
        IN  /\ \A i \in 1..Len(p.behaviors) :
                   p.behaviors[i].cfFunction =
                       IF p.behaviors[i].cacheType = "static"
                       THEN "staticCfFunction" ELSE "serverCfFunction"
            /\ DOMAIN p.cloudFrontFunctions = {"serverCfFunction", "staticCfFunction"}
            /\ p.cloudFrontFunctions["staticCfFunction"].injections[1] =
                   "request.uri = request.uri.split('/').map(encodeURIComponent).join('/');"
            /\ p.cloudFrontFunctions["serverCfFunction"].injections =
                   << "useCloudFrontFunctionHostHeaderInjection()" >>

C24_Witness ==
    /\ built.some
    /\ edge
    /\ isUsingVite
    /\ \E i \in 1..Len(built.value.behaviors) :
           /\ built.value.behaviors[i].cacheType = "static"
           /\ built.value.behaviors[i].pattern = << "a", "*", "/", "*" >>
    /\ \E i \in 1..Len(built.value.behaviors) :
           /\ built.value.behaviors[i].cacheType = "static"
           /\ built.value.behaviors[i].pattern = << "b" >>

\* the lines of the written server module
WrittenServerModule ==
    (CHOOSE x \in written : x.path = "out/build/server.mjs").content

-----------------------------------------------------------------------------
(* Properties of the route patterns *)

\* a CDN path pattern accepts a request path: "*" stands for any run of
\* characters, "?" for exactly one, any other character for itself
RECURSIVE PatternAccepts(_, _)
PatternAccepts(pattern, path) ==
    IF pattern = <<>> THEN path = <<>>
    ELSE IF Head(pattern) = "*"
         THEN \/ PatternAccepts(Tail(pattern), path)
              \/ path # <<>> /\ PatternAccepts(pattern, Tail(path))
         ELSE /\ path # <<>>
              /\ Head(pattern) = "?" \/ Head(pattern) = Head(path)
              /\ PatternAccepts(Tail(pattern), Tail(path))

\* request paths, without the leading slash
RequestPaths ==
    { << "a" >>, << "b" >>, << "a", "b" >>, << "a", "/", "c" >>,
      << "a", "*" >>, << "a", "*", "/", "c" >>, << "c" >> }

IsStrictPrefix(p, q) == Len(p) < Len(q) /\ SubSeq(q, 1, Len(p)) = p

\* C25: in a plan built from the loader's metadata, two static behaviors
\* accept a common request path only when the one ordered first is a strict
\* prefix of the other, and no static behavior accepts every path
C25_NoOverlappingPatterns ==
    (built.some /\ ~dev) =>
        LET st == StaticOf(built.value.behaviors)
        IN  /\ \A i, j \in 1..Len(st) :
                   (i < j /\ \E path \in RequestPaths :
                                 /\ PatternAccepts(st[i].pattern, path)
                                 /\ PatternAccepts(st[j].pattern, path))
                       => IsStrictPrefix(st[i].pattern, st[j].pattern)
            /\ \A i \in 1..Len(st) :
                   \E path \in RequestPaths : ~PatternAccepts(st[i].pattern, path)

\* C27: the children of a listed directory have pairwise distinct names
\* without a separator, and then the loader's staticRoutes are pairwise
\* distinct, so the plan built from them has no two static behaviors with
\* the same pattern and validatePlan never reports a duplicate pattern
C27_DistinctNamesDistinctPatterns ==
    /\ (buildMeta.some /\ ~dev) =>
           \A i, j \in 1..Len(buildMeta.value.staticRoutes) :
               buildMeta.value.staticRoutes[i] = buildMeta.value.staticRoutes[j]
                   => i = j
    /\ (built.some /\ ~dev) =>
           LET st == StaticOf(built.value.behaviors)
           IN  /\ \A i, j \in 1..Len(st) : st[i].pattern = st[j].pattern => i = j
               /\ error.some => "DuplicatePattern" \notin error.value.violations

C27_Witness ==
    /\ built.some
    /\ ~dev
    /\ \E i, j \in 1..Len(buildMeta.value.staticRoutes) :
           /\ buildMeta.value.staticRoutes[i] = << "a", "/", "*" >>
           /\ buildMeta.value.staticRoutes[j] = << "a", "*" >>
    /\ ValidationFailed

-----------------------------------------------------------------------------
(* Properties of the asset layout *)

\* C26: outside dev mode the asset layout follows from the presence of
\* vite.config.ts or vite.config.js alone: build/client with no versioned
\* sub-directory with Vite, public with the versioned sub-directory build
\* without, whatever edge is
C26_LayoutByViteConfig ==
    (buildMeta.some /\ ~dev) =>
        IF disk.files \cap {"vite.config.ts", "vite.config.js"} # {}
        THEN /\ buildMeta.value.assetsPath = "build/client"
             /\ buildMeta.value.assetsVersionedSubDir = None
             /\ loaderReads = {"out/build/client"}
        ELSE /\ buildMeta.value.assetsPath = "public"
             /\ buildMeta.value.assetsVersionedSubDir = Some("build")
             /\ loaderReads = {"out/public"}

C26_Witness ==
    /\ buildMeta.some
    /\ ~dev
    /\ disk.files = {"vite.config.js"}
    /\ edge
    /\ buildMeta.value.assetsPath = "build/client"
    /\ Len(buildMeta.value.staticRoutes) = MaxChildren

-----------------------------------------------------------------------------
(* Properties of the URLs the component exposes *)

\* C28: the url getter, the url of the metadata and the url of the link
\* properties are one value, the domainUrl when the distribution has one and
\* its CloudFront url otherwise; the hint is that value outside dev mode and
\* undefined in dev mode
C28_UrlsAgree ==
    outputs.some =>
        LET cdn == site.value.distribution
            u   == IF cdn.domainUrl.some THEN cdn.domainUrl.value ELSE cdn.url
        IN  /\ RemixUrl(site.value) = u
            /\ outputs.value.metadata.url = u
            /\ getSSTLink(site.value).properties.url = u
            /\ outputs.value.hint = (IF dev THEN None ELSE Some(u))

C28_Witness ==
    /\ outputs.some
    /\ dev
    /\ site.value.distribution.domainUrl.some
    /\ outputs.value.hint = None
    /\ getSSTLink(site.value).properties.url = "https://example.com"

-----------------------------------------------------------------------------
(* Properties of the CognitoUserPool attributes *)

\* the alias kind an attribute stands for, and the place of a kind in the
\* fixed order email, phone, preferred_username
KindOfAttribute(attribute) ==
    IF attribute = "email" THEN "email"
    ELSE IF attribute = "phoneNumber" THEN "phone"
    ELSE "preferred_username"

RankOfKind(kind) ==
    IF kind = "email" THEN 1 ELSE IF kind = "phone" THEN 2 ELSE 3

\* a list of attributes that holds one entry for each given alias kind among
\* those allowed, and no other entry, in the fixed order
AttributesFollow(attributes, given, allowed) ==
    /\ \A i, j \in 1..Len(attributes) :
           i < j => RankOfKind(KindOfAttribute(attributes[i]))
                        < RankOfKind(KindOfAttribute(attributes[j]))
    /\ \A kind \in AliasKinds :
           (\E i \in 1..Len(attributes) : KindOfAttribute(attributes[i]) = kind)
               <=> (kind \in allowed /\ \E k \in 1..Len(given) : given[k] = kind)

\* C30: for every list of aliases, in any order and with repeats,
\* aliasAttributes holds one entry per alias kind given, in the order email,
\* phone, preferred_username; autoVerifiedAttributes holds the entries for
\* email and phone only, in that order, each one also an entry of
\* aliasAttributes; with no aliases both lists are empty
C30_AliasAttributes ==
    userPool.some =>
        LET given == IF args.aliases.some THEN args.aliases.value ELSE << >>
            alias == userPool.value.aliasAttributes
            auto  == userPool.value.autoVerifiedAttributes
        IN  /\ AttributesFollow(alias, given, AliasKinds)
            /\ AttributesFollow(auto, given, {"email", "phone"})
            /\ \A i \in 1..Len(auto) : \E j \in 1..Len(alias) : alias[j] = auto[i]
            /\ given = << >> => alias = << >> /\ auto = << >>

C30_Witness ==
    /\ userPool.some
    /\ args.aliases = Some(<< "preferred_username", "phone", "email", "phone" >>)
    /\ Len(userPool.value.aliasAttributes) = 3
    /\ Len(userPool.value.autoVerifiedAttributes) = 2

====
